---- MODULE Spec2Model ----
(***************************************************************************)
(* A model of pkg/gitserver/gitserver.go: the client-side call multiplexer *)
(* that Dial starts (one coordinator goroutine, one watcher goroutine per  *)
(* dispatch, callers blocked in call()), the net/rpc client it drives, the *)
(* server-side Git.Exec with its deferred credential cleanup and the       *)
(* subprocess environment, and the operations of the client-side Cmd.      *)
(***************************************************************************)
EXTENDS Integers, Sequences, FiniteSets, TLC

\* ------------------------------------------------------------------ bounds
NCalls == 2          \* number of callers that may invoke call()
MaxConns == 2        \* connections that DialHTTP may ever hand out
MaxDialFails == 1    \* failed DialHTTP attempts that are explored
MaxExecs == 2        \* Git.Exec requests the executor serves one after another
MaxOps == 2          \* operations run on one Cmd value
NEarly == 3          \* callers of a burst that call before the outage is noticed

\* ------------------------------------------------------- program constants
CallChanCap == 10    \* make(chan *rpc.Call, 10)

Calls == 1..NCalls

\* The callers of a burst: NEarly early ones and as many more as the queue
\* holds.
BurstCalls == 1..(NEarly + CallChanCap)
Conns == 1..MaxConns

\* error values a call can carry
NoErr == "nil"
ErrShutdown == "ErrShutdown"            \* rpc.ErrShutdown
ErrUnexpectedEOF == "ErrUnexpectedEOF"  \* what net/rpc gives calls pending at a drop
ServerError == "ServerError"            \* rpc.ServerError: Git.Exec returned an error
None == "none"                          \* an empty channel / an unset field

\* The requests a caller can submit, by what Git.Exec does with them.
Requests == {"run", "badauth"}

VARIABLES
    \* ---- Dial and the coordinator goroutine
    dialState,        \* "init" | "failed" | "ok": what Dial returned
    callChan,         \* the global callChan: "nil" | "theCallChan"
    queue,            \* buffer of theCallChan: sequence of calls
    clientSingleton,  \* the current connection (0: none)
    cpc,              \* coordinator: "notstarted" | "select" | "dial"
    nconn,            \* connections created so far (successful DialHTTP calls)
    dialFails,        \* failed DialHTTP calls so far
    connState,        \* per connection: "unused" | "up" | "shutdown"
    closeCalls,       \* per connection: number of Close() calls on it
    \* ---- callers in call()
    pc,               \* per call: "idle" | "send" | "wait" | "returned"
    args,             \* per call: the request
    callError,        \* per call: the rpc.Call's Error field
    callReply,        \* per call: the reply buffer
    doneBuf,          \* per call: values buffered in call.Done (capacity 1)
    doneWrites,       \* per call: values ever written to call.Done
    retErr,           \* per call: what call() returned
    \* ---- watcher goroutines (one per dispatch)
    wpc,              \* per call: "none" | "await" | "reset" | "retry"
    wclient,          \* per call: clientForCall of its watcher
    innerDone,        \* per call: the dispatch's own done channel
    dispatches,       \* per call: number of clientForCall.Go calls made for it
    \* ---- history
    shutOn,           \* per call: connections on which a dispatch of it ended in ErrShutdown
    lastDispatched    \* the call dispatched last (0: none)

muxVars == <<dialState, callChan, queue, clientSingleton, cpc, nconn, dialFails,
             connState, closeCalls, pc, args, callError, callReply, doneBuf,
             doneWrites, retErr, wpc, wclient, innerDone, dispatches, shutOn,
             lastDispatched>>

VARIABLES
    \* ---- one Git.Exec on the executor
    epc,        \* "idle" | "ssh" | "https" | "run" | "unwind" | "returned" | "fatal"
    ereq,       \* the ExecArgs: [repo, ssh, https]
    fs,         \* credential artifacts that exist on disk
    defers,     \* the deferred calls registered so far, oldest first
    keyFile,    \* the keyFile variable the first deferred closure captures
    cmdEnv,     \* cmd.Env: [isNil, vars]; nil inherits the ambient environment, else vars is a set of <<name, value>>
    sshOut,     \* how makeGitSSHWrapper ended ("none": not called)
    httpsOut,   \* how makeGitPassHelper ended ("none": not called)
    runOut,     \* how cmd.Run ended ("none": not called)
    ereply,     \* the ExecReply
    eret,       \* the error Exec returns ("none": not returned yet)
    execs       \* Exec requests served so far

execVars == <<epc, ereq, fs, defers, keyFile, cmdEnv, sshOut, httpsOut, runOut, ereply,
              eret, execs>>

VARIABLES
    \* ---- one Cmd value on the client
    ExitStatus, \* the Cmd's ExitStatus field
    lastOp,     \* the operation that returned last ("none": none yet)
    lastCall,   \* what call() gave that operation: [err, reply]
    lastRet,    \* what the operation returned: [out, errOut, err]
    ops         \* operations run on the Cmd so far

cmdVars == <<ExitStatus, lastOp, lastCall, lastRet, ops>>

vars == <<muxVars, execVars, cmdVars>>

\* -------------------------------------------------------------- Git.Exec
\* What the client reads back for a request that reaches Git.Exec: for
\* "badauth" the credential provisioning fails, Exec returns the error and the
\* call ends with an rpc.ServerError and no reply; for "run" Exec returns nil
\* and the reply is filled.
ExecOutcome(req) ==
    IF req = "badauth"
    THEN [err |-> ServerError, reply |-> None]
    ELSE [err |-> NoErr, reply |-> "reply:" \o req]

\* ---------------------------------------------------------------- Init
\* The state before Dial for a set of callers, none of them in call().
MuxInitFor(callers) ==
    /\ dialState = "init"
    /\ callChan = "nil"
    /\ queue = <<>>
    /\ clientSingleton = 0
    /\ cpc = "notstarted"
    /\ nconn = 0
    /\ dialFails = 0
    /\ connState = [x \in Conns |-> "unused"]
    /\ closeCalls = [x \in Conns |-> 0]
    /\ pc = [c \in callers |-> "idle"]
    /\ args = [c \in callers |-> None]
    /\ callError = [c \in callers |-> NoErr]
    /\ callReply = [c \in callers |-> None]
    /\ doneBuf = [c \in callers |-> 0]
    /\ doneWrites = [c \in callers |-> 0]
    /\ retErr = [c \in callers |-> None]
    /\ wpc = [c \in callers |-> "none"]
    /\ wclient = [c \in callers |-> 0]
    /\ innerDone = [c \in callers |-> None]
    /\ dispatches = [c \in callers |-> 0]
    /\ shutOn = [c \in callers |-> {}]
    /\ lastDispatched = 0

\* Dial has not been called; the callers are Calls.
MuxInit == MuxInitFor(Calls)

ExecInit ==
    /\ epc = "idle"
    /\ ereq = [repo |-> "none", ssh |-> FALSE, https |-> FALSE]
    /\ fs = {}
    /\ defers = <<>>
    /\ keyFile = ""
    /\ cmdEnv = [isNil |-> TRUE, vars |-> {}]
    /\ sshOut = "none"
    /\ httpsOut = "none"
    /\ runOut = "none"
    /\ ereply = [RepoExists |-> FALSE, Error |-> "", ExitStatus |-> 0]
    /\ eret = "none"
    /\ execs = 0

\* The reply DividedOutput declares: var reply ExecReply.
ZeroReply ==
    [RepoExists |-> FALSE, Error |-> "", ExitStatus |-> 0, Stdout |-> <<>>, Stderr |-> <<>>]

\* The Cmd that Command("git", ...) returns; no operation has run on it.
CmdInit ==
    /\ ExitStatus = 0
    /\ lastOp = "none"
    /\ lastCall = [err |-> NoErr, reply |-> ZeroReply]
    /\ lastRet = [out |-> <<>>, errOut |-> <<>>, err |-> NoErr]
    /\ ops = 0

Init == MuxInit /\ ExecInit /\ CmdInit

\* The callers whose calls the state holds.
Callers == DOMAIN pc

\* ------------------------------------------------------------ net/rpc
\* Calls registered in connection x's pending map: dispatched on x, no
\* response and no termination yet.
PendingOn(x) == {c \in Callers : wpc[c] = "await" /\ wclient[c] = x /\ innerDone[c] = None}

\* client.Go on connection x: a client that is shut down or closing ends the
\* call at once with ErrShutdown, without writing the request.
GoResult(x) ==
    IF connState[x] # "up" \/ closeCalls[x] > 0 THEN ErrShutdown ELSE None

\* ---------------------------------------------------------------- Dial
DialOnError_QueueInstalled == [state |-> "failed", chan |-> "theCallChan", coord |-> cpc]

\* What Dial leaves behind when its first DialHTTP fails: it returns the
\* error; callChan and the coordinator are untouched.
DialOnError == [state |-> "failed", chan |-> callChan, coord |-> cpc]

DialErr ==
    /\ dialState = "init"
    /\ dialFails' = dialFails + 1
    /\ dialState' = DialOnError.state
    /\ callChan' = DialOnError.chan
    /\ cpc' = DialOnError.coord
    /\ UNCHANGED <<queue, clientSingleton, nconn, connState, closeCalls, pc, args,
                   callError, callReply, doneBuf, doneWrites, retErr, wpc, wclient,
                   innerDone, dispatches>>
    /\ UNCHANGED <<shutOn, lastDispatched>>

DialOK ==
    /\ dialState = "init"
    /\ nconn' = nconn + 1
    /\ connState' = [connState EXCEPT ![nconn + 1] = "up"]
    /\ clientSingleton' = nconn + 1
    /\ callChan' = "theCallChan"
    /\ cpc' = "select"
    /\ dialState' = "ok"
    /\ UNCHANGED <<queue, dialFails, closeCalls, pc, args, callError, callReply,
                   doneBuf, doneWrites, retErr, wpc, wclient, innerDone, dispatches>>
    /\ UNCHANGED <<shutOn, lastDispatched>>

\* ---------------------------------------------------------------- call()
\* A caller enters call(): it makes its done channel and the rpc.Call.
Submit(c) ==
    /\ pc[c] = "idle"
    /\ \E r \in Requests : args' = [args EXCEPT ![c] = r]
    /\ pc' = [pc EXCEPT ![c] = "send"]
    /\ UNCHANGED <<dialState, callChan, queue, clientSingleton, cpc, nconn, dialFails,
                   connState, closeCalls, callError, callReply, doneBuf, doneWrites,
                   retErr, wpc, wclient, innerDone, dispatches>>
    /\ UNCHANGED <<shutOn, lastDispatched>>

CanSend_Unbounded == callChan # "nil"

\* callChan <- call: blocks on a nil channel and on a full buffer.
CanSend == callChan # "nil" /\ Len(queue) < CallChanCap

Enqueue_Drop(q, c) == q

\* The buffer of callChan after a send of call c.
Enqueue(q, c) == Append(q, c)

CallerSend(c) ==
    /\ pc[c] = "send"
    /\ CanSend
    /\ queue' = Enqueue(queue, c)
    /\ pc' = [pc EXCEPT ![c] = "wait"]
    /\ UNCHANGED <<dialState, callChan, clientSingleton, cpc, nconn, dialFails,
                   connState, closeCalls, args, callError, callReply, doneBuf,
                   doneWrites, retErr, wpc, wclient, innerDone, dispatches>>
    /\ UNCHANGED <<shutOn, lastDispatched>>

\* return (<-done).Error: the channel carries the call itself, so the error
\* returned is the call's Error field at the time of the receive.
CallerReturn(c) ==
    /\ pc[c] = "wait"
    /\ doneBuf[c] > 0
    /\ doneBuf' = [doneBuf EXCEPT ![c] = @ - 1]
    /\ retErr' = [retErr EXCEPT ![c] = callError[c]]
    /\ pc' = [pc EXCEPT ![c] = "returned"]
    /\ UNCHANGED <<dialState, callChan, queue, clientSingleton, cpc, nconn, dialFails,
                   connState, closeCalls, args, callError, callReply, doneWrites,
                   wpc, wclient, innerDone, dispatches>>
    /\ UNCHANGED <<shutOn, lastDispatched>>

\* ---------------------------------------------------------- coordinator
CanDequeue_Synchronous ==
    /\ cpc = "select"
    /\ queue # <<>>
    /\ \A c \in Callers : ~(wpc[c] = "await" /\ innerDone[c] = None)

\* The coordinator is at its select and theCallChan has a call to receive;
\* client.Go returns at once and the watcher is a goroutine of its own, so
\* nothing else holds the coordinator back.
CanDequeue == cpc = "select" /\ queue # <<>>

\* case call := <-theCallChan: dispatch on the current connection and start
\* the watcher.
Dequeue ==
    /\ CanDequeue
    /\ LET c == Head(queue) IN
        /\ queue' = Tail(queue)
        /\ wclient' = [wclient EXCEPT ![c] = clientSingleton]
        /\ innerDone' = [innerDone EXCEPT ![c] = GoResult(clientSingleton)]
        /\ wpc' = [wpc EXCEPT ![c] = "await"]
        /\ dispatches' = [dispatches EXCEPT ![c] = @ + 1]
        /\ lastDispatched' = c
    /\ UNCHANGED <<dialState, callChan, clientSingleton, cpc, nconn, dialFails,
                   connState, closeCalls, pc, args, callError, callReply, doneBuf,
                   doneWrites, retErr, shutOn>>

IsStale_Never(client) == FALSE

\* if client != clientSingleton { continue }
IsStale(client) == client # clientSingleton

\* client.Close(): the client is closing; calls still pending on it end with
\* ErrShutdown.
CloseEffect(x) ==
    /\ closeCalls' = [closeCalls EXCEPT ![x] = @ + 1]
    /\ connState' = [connState EXCEPT ![x] = "shutdown"]
    /\ innerDone' = [c \in Callers |->
                        IF c \in PendingOn(x) THEN ErrShutdown ELSE innerDone[c]]

AfterClose_Return == "exited"

\* Where the coordinator goes after client.Close(): into the reconnect loop.
AfterClose == "dial"

\* case client := <-resetConnectionChan, a rendezvous with the watcher of
\* call c blocked on resetConnectionChan <- clientForCall.
ResetHandover(c) ==
    /\ cpc = "select"
    /\ wpc[c] = "reset"
    /\ wpc' = [wpc EXCEPT ![c] = "retry"]
    /\ IF IsStale(wclient[c])
       THEN UNCHANGED <<cpc, closeCalls, connState, innerDone>>
       ELSE /\ CloseEffect(clientSingleton)
            /\ cpc' = AfterClose
    /\ UNCHANGED <<dialState, callChan, queue, clientSingleton, nconn, dialFails, pc,
                   args, callError, callReply, doneBuf, doneWrites, retErr, wclient,
                   dispatches>>
    /\ UNCHANGED <<shutOn, lastDispatched>>

AfterFailedDial_GiveUp == "select"

\* Where the reconnect loop goes after a failed DialHTTP: it logs, sleeps a
\* second and dials again.
AfterFailedDial == "dial"

RedialFail ==
    /\ cpc = "dial"
    /\ dialFails < MaxDialFails
    /\ dialFails' = dialFails + 1
    /\ cpc' = AfterFailedDial
    /\ UNCHANGED <<dialState, callChan, queue, clientSingleton, nconn, connState,
                   closeCalls, pc, args, callError, callReply, doneBuf, doneWrites,
                   retErr, wpc, wclient, innerDone, dispatches>>
    /\ UNCHANGED <<shutOn, lastDispatched>>

InstalledClient_Shadowed(newClient) == clientSingleton

\* clientSingleton = newClient
InstalledClient(newClient) == newClient

RedialOK ==
    /\ cpc = "dial"
    /\ nconn < MaxConns
    /\ nconn' = nconn + 1
    /\ connState' = [connState EXCEPT ![nconn + 1] = "up"]
    /\ clientSingleton' = InstalledClient(nconn + 1)
    /\ cpc' = "select"
    /\ UNCHANGED <<dialState, callChan, queue, dialFails, closeCalls, pc, args,
                   callError, callReply, doneBuf, doneWrites, retErr, wpc, wclient,
                   innerDone, dispatches>>
    /\ UNCHANGED <<shutOn, lastDispatched>>

\* -------------------------------------------------------------- watcher
WatcherNext_NoRetry(err) == "deliver"

WatcherNext_RetryAnyError(err) == IF err # NoErr THEN "reset" ELSE "deliver"

WatcherNext_SkipReset(err) == IF err = ErrShutdown THEN "retry" ELSE "deliver"

\* if call.Error == rpc.ErrShutdown { reset; retry; return }; call.Done <- call
\* The watcher's next step: "reset" (the hand-over on resetConnectionChan,
\* which the retry follows), "retry" or "deliver".
WatcherNext(err) == IF err = ErrShutdown THEN "reset" ELSE "deliver"

AfterRetry_FallThrough == "deliver"

\* After callChan <- call the watcher returns.
AfterRetry == "exit"

\* call.Done <- call (capacity 1: blocks while a value is buffered).
CanDeliver(c) == doneBuf[c] = 0

Deliver(c) ==
    /\ doneBuf' = [doneBuf EXCEPT ![c] = @ + 1]
    /\ doneWrites' = [doneWrites EXCEPT ![c] = @ + 1]

\* call.Error = (<-done).Error and the branch on it.
WatcherAwait(c) ==
    /\ wpc[c] = "await"
    /\ innerDone[c] # None
    /\ callError' = [callError EXCEPT ![c] = innerDone[c]]
    /\ innerDone' = [innerDone EXCEPT ![c] = None]
    /\ shutOn' = [shutOn EXCEPT ![c] =
                        IF innerDone[c] = ErrShutdown THEN @ \cup {wclient[c]} ELSE @]
    /\ IF WatcherNext(innerDone[c]) \in {"reset", "retry"}
       THEN /\ wpc' = [wpc EXCEPT ![c] = WatcherNext(innerDone[c])]
            /\ UNCHANGED <<doneBuf, doneWrites, wclient>>
       ELSE /\ CanDeliver(c)
            /\ Deliver(c)
            /\ wpc' = [wpc EXCEPT ![c] = "none"]
            /\ wclient' = [wclient EXCEPT ![c] = 0]
    /\ UNCHANGED <<dialState, callChan, queue, clientSingleton, cpc, nconn, dialFails,
                   connState, closeCalls, pc, args, callReply, retErr, dispatches,
                   lastDispatched>>

\* callChan <- call // retry
WatcherRetry(c) ==
    /\ wpc[c] = "retry"
    /\ CanSend
    /\ queue' = Enqueue(queue, c)
    /\ wpc' = [wpc EXCEPT ![c] = "none"]
    /\ wclient' = [wclient EXCEPT ![c] = 0]
    /\ IF AfterRetry = "exit"
       THEN UNCHANGED <<doneBuf, doneWrites>>
       ELSE CanDeliver(c) /\ Deliver(c)
    /\ UNCHANGED <<dialState, callChan, clientSingleton, cpc, nconn, dialFails,
                   connState, closeCalls, pc, args, callError, callReply, retErr,
                   innerDone, dispatches>>
    /\ UNCHANGED <<shutOn, lastDispatched>>

\* ------------------------------------------------- executor and network
\* The executor runs Git.Exec for a call pending on a live connection and the
\* client reads the response.
Respond(c) ==
    /\ wpc[c] = "await"
    /\ innerDone[c] = None
    /\ connState[wclient[c]] = "up"
    /\ innerDone' = [innerDone EXCEPT ![c] = ExecOutcome(args[c]).err]
    /\ callReply' = [callReply EXCEPT ![c] =
                        IF ExecOutcome(args[c]).err = NoErr
                        THEN ExecOutcome(args[c]).reply ELSE @]
    /\ UNCHANGED <<dialState, callChan, queue, clientSingleton, cpc, nconn, dialFails,
                   connState, closeCalls, pc, args, callError, doneBuf, doneWrites,
                   retErr, wpc, wclient, dispatches>>
    /\ UNCHANGED <<shutOn, lastDispatched>>

\* Connection x drops: the client's reader sees the end of the stream, marks
\* the client shut down and ends every pending call with io.ErrUnexpectedEOF
\* (the client is not closing).  The last connection that can be dialed stays
\* up.
ConnDrop(x) ==
    /\ connState[x] = "up"
    /\ x < MaxConns
    /\ connState' = [connState EXCEPT ![x] = "shutdown"]
    /\ innerDone' = [c \in Callers |->
                        IF c \in PendingOn(x) THEN ErrUnexpectedEOF ELSE innerDone[c]]
    /\ UNCHANGED <<dialState, callChan, queue, clientSingleton, cpc, nconn, dialFails,
                   closeCalls, pc, args, callError, callReply, doneBuf, doneWrites,
                   retErr, wpc, wclient, dispatches>>
    /\ UNCHANGED <<shutOn, lastDispatched>>


\* ------------------------------------------------------------ Git.Exec
\* The requests Exec can get: the repository directory exists or not, and
\* Opt may carry SSH options, HTTPS options, both or none.
ExecRequests == [repo : {"present", "missing"}, ssh : BOOLEAN, https : BOOLEAN]

ProvisionError == "ProvisionError"

\* makeGitSSHWrapper(privateKey): the key file is written first, then the
\* wrapper script (inside its own directory on some platforms).  A failure
\* before the key file exists returns no names; a failure after it returns the
\* key file's name, which Exec removes.
SSHOutcomes == {"ok", "ok-dir", "fail-key", "fail-wrapper"}

MakeGitSSHWrapper(o) ==
    CASE o = "ok" ->
           [wrapper |-> "sshWrapper", dir |-> "", keyFile |-> "key", err |-> NoErr,
            files |-> {"key", "sshWrapper"}]
      [] o = "ok-dir" ->
           [wrapper |-> "sshWrapper", dir |-> "sshWrapperDir", keyFile |-> "key", err |-> NoErr,
            files |-> {"key", "sshWrapper", "sshWrapperDir"}]
      [] o = "fail-key" ->
           [wrapper |-> "", dir |-> "", keyFile |-> "", err |-> ProvisionError, files |-> {}]
      [] o = "fail-wrapper" ->
           [wrapper |-> "", dir |-> "", keyFile |-> "key", err |-> ProvisionError,
            files |-> {"key"}]

\* makeGitPassHelper(pass): a failure leaves nothing behind.
HTTPSOutcomes == {"ok", "ok-dir", "fail"}

MakeGitPassHelper(o) ==
    CASE o = "ok" ->
           [helper |-> "passHelper", dir |-> "", err |-> NoErr, files |-> {"passHelper"}]
      [] o = "ok-dir" ->
           [helper |-> "passHelper", dir |-> "passHelperDir", err |-> NoErr,
            files |-> {"passHelper", "passHelperDir"}]
      [] o = "fail" ->
           [helper |-> "", dir |-> "", err |-> ProvisionError, files |-> {}]

\* os.Environ() on the executor, and environ.Unset.
AmbientEnv == {<<"PATH", "/usr/bin">>, <<"GIT_TERMINAL_PROMPT", "1">>,
               <<"GIT_ASKPASS", "ambient-askpass">>}

Unset(env, name) == {e \in env : e[1] # name}

SSHDefers_AfterErrCheck(res) ==
    IF res.err # NoErr THEN <<>>
    ELSE <<"rmKey", "rmWrapper">> \o (IF res.dir # "" THEN <<"rmWrapperDir">> ELSE <<>>)

\* The deferred calls the SSH block registers for a provisioner result: the
\* key file's removal before the error check, the wrapper's and the
\* directory's after it.
SSHDefers(res) ==
    <<"rmKey">> \o
    (IF res.err # NoErr THEN <<>>
     ELSE <<"rmWrapper">> \o (IF res.dir # "" THEN <<"rmWrapperDir">> ELSE <<>>))

\* The deferred calls the HTTPS block registers, all after the error check.
HTTPSDefers(res) ==
    IF res.err # NoErr THEN <<>>
    ELSE <<"rmHelper">> \o (IF res.dir # "" THEN <<"rmHelperDir">> ELSE <<>>)

\* What one deferred call removes from disk.
Removes(d) ==
    CASE d = "rmKey" -> IF keyFile # "" THEN {keyFile} ELSE {}
      [] d = "rmWrapper" -> {"sshWrapper"}
      [] d = "rmWrapperDir" -> {"sshWrapperDir", "sshWrapper"}
      [] d = "rmHelper" -> {"passHelper"}
      [] d = "rmHelperDir" -> {"passHelperDir", "passHelper"}

\* The disk after the deferred calls ran (last registered first).
AfterDefers == fs \ UNION {Removes(defers[i]) : i \in 1..Len(defers)}

\* os.Remove(keyFile) fails when the file is not there: log.Fatalf.
KeyRemovalFails ==
    /\ \E i \in 1..Len(defers) : defers[i] = "rmKey"
    /\ keyFile # ""
    /\ keyFile \notin fs

RepoMissing_Never(req) == FALSE

ProvisionFailed_Ignored(res) == FALSE

\* if err != nil { return err } after makeGitSSHWrapper and makeGitPassHelper.
ProvisionFailed(res) == res.err # NoErr

\* os.Stat(dir) fails and os.IsNotExist(err) holds.
RepoMissing(req) == req.repo = "missing"

\* Exec is entered: os.Stat of the repository directory.
ExecBegin(req) ==
    /\ epc = "idle"
    /\ ereq' = req
    /\ IF RepoMissing(req)
       THEN /\ eret' = NoErr
            /\ epc' = "unwind"
            /\ UNCHANGED ereply
       ELSE /\ ereply' = [ereply EXCEPT !.RepoExists = TRUE]
            /\ epc' = "ssh"
            /\ UNCHANGED eret
    /\ UNCHANGED <<fs, defers, keyFile, cmdEnv, sshOut, httpsOut, runOut, execs>>

\* if args.Opt != nil && args.Opt.SSH != nil { ... }
ExecSSH(o) ==
    /\ epc = "ssh"
    /\ ereq.ssh
    /\ LET res == MakeGitSSHWrapper(o) IN
        /\ sshOut' = o
        /\ fs' = fs \cup res.files
        /\ keyFile' = res.keyFile
        /\ defers' = defers \o SSHDefers(res)
        /\ IF ProvisionFailed(res)
           THEN /\ eret' = res.err
                /\ epc' = "unwind"
                /\ UNCHANGED cmdEnv
           ELSE /\ cmdEnv' = [isNil |-> FALSE, vars |-> {<<"GIT_SSH", res.wrapper>>}]
                /\ epc' = "https"
                /\ UNCHANGED eret
    /\ UNCHANGED <<ereq, httpsOut, runOut, ereply, execs>>

ExecSkipSSH ==
    /\ epc = "ssh"
    /\ ~ereq.ssh
    /\ epc' = "https"
    /\ UNCHANGED <<ereq, fs, defers, keyFile, cmdEnv, sshOut, httpsOut, runOut, ereply, eret,
                   execs>>

\* if args.Opt != nil && args.Opt.HTTPS != nil { ... }
ExecHTTPS(o) ==
    /\ epc = "https"
    /\ ereq.https
    /\ LET res == MakeGitPassHelper(o)
           env == Unset(AmbientEnv, "GIT_TERMINAL_PROMPT")
       IN
        /\ httpsOut' = o
        /\ fs' = fs \cup res.files
        /\ defers' = defers \o HTTPSDefers(res)
        /\ IF ProvisionFailed(res)
           THEN /\ eret' = res.err
                /\ epc' = "unwind"
                /\ UNCHANGED cmdEnv
           ELSE /\ cmdEnv' = [isNil |-> FALSE,
                            vars |-> Unset(env, "GIT_ASKPASS")
                                        \cup {<<"GIT_ASKPASS", res.helper>>}]
                /\ epc' = "run"
                /\ UNCHANGED eret
    /\ UNCHANGED <<ereq, keyFile, sshOut, runOut, ereply, execs>>

ExecSkipHTTPS ==
    /\ epc = "https"
    /\ ~ereq.https
    /\ epc' = "run"
    /\ UNCHANGED <<ereq, fs, defers, keyFile, cmdEnv, sshOut, httpsOut, runOut, ereply, eret,
                   execs>>

\* cmd.Run() and the reply: the subprocess fails to start, or runs and exits
\* with a status.
RunOutcomes == {"startfail", "exit0", "exit1"}

\* The environment the subprocess gets from cmd.Run(): cmd.Env when it was
\* set, the executor's own environment when it is nil.
SubprocessEnv == IF cmdEnv.isNil THEN AmbientEnv ELSE cmdEnv.vars

\* What cmd.Run() leaves for an outcome: its error and cmd.ProcessState
\* (started is FALSE when ProcessState is nil, exitCode is what
\* ProcessState's ExitStatus() gives).
CmdRun(o) ==
    CASE o = "startfail" -> [err |-> "exec: git: not found", started |-> FALSE, exitCode |-> 0]
      [] o = "exit0" -> [err |-> "", started |-> TRUE, exitCode |-> 0]
      [] o = "exit1" -> [err |-> "exit status 1", started |-> TRUE, exitCode |-> 1]

ReplyExitStatus_Unset(r, old) == old

\* if cmd.ProcessState != nil { reply.ExitStatus = ...ExitStatus() }
ReplyExitStatus(r, old) == IF r.started THEN r.exitCode ELSE old

ExecRun(o) ==
    /\ epc = "run"
    /\ runOut' = o
    /\ LET r == CmdRun(o) IN
        ereply' = [ereply EXCEPT
                    !.Error = IF r.err # "" THEN r.err ELSE @,
                    !.ExitStatus = ReplyExitStatus(r, @)]
    /\ eret' = NoErr
    /\ epc' = "unwind"
    /\ UNCHANGED <<ereq, fs, defers, keyFile, cmdEnv, sshOut, httpsOut, execs>>

\* Exec returns: the deferred calls run.
ExecReturn ==
    /\ epc = "unwind"
    /\ fs' = AfterDefers
    /\ defers' = <<>>
    /\ epc' = IF KeyRemovalFails THEN "fatal" ELSE "returned"
    /\ execs' = execs + 1
    /\ UNCHANGED <<ereq, keyFile, cmdEnv, sshOut, httpsOut, runOut, ereply, eret>>

\* The RPC server hands the next request to a fresh Exec; the disk is what
\* the earlier ones left.
ExecAgain ==
    /\ epc = "returned"
    /\ execs < MaxExecs
    /\ epc' = "idle"
    /\ ereq' = [repo |-> "none", ssh |-> FALSE, https |-> FALSE]
    /\ keyFile' = ""
    /\ cmdEnv' = [isNil |-> TRUE, vars |-> {}]
    /\ sshOut' = "none"
    /\ httpsOut' = "none"
    /\ runOut' = "none"
    /\ ereply' = [RepoExists |-> FALSE, Error |-> "", ExitStatus |-> 0]
    /\ eret' = "none"
    /\ UNCHANGED <<fs, defers, execs>>

ExecNext ==
    \/ \E req \in ExecRequests : ExecBegin(req) /\ UNCHANGED <<muxVars, cmdVars>>
    \/ \E o \in SSHOutcomes : ExecSSH(o) /\ UNCHANGED <<muxVars, cmdVars>>
    \/ ExecSkipSSH /\ UNCHANGED <<muxVars, cmdVars>>
    \/ \E o \in HTTPSOutcomes : ExecHTTPS(o) /\ UNCHANGED <<muxVars, cmdVars>>
    \/ ExecSkipHTTPS /\ UNCHANGED <<muxVars, cmdVars>>
    \/ \E o \in RunOutcomes : ExecRun(o) /\ UNCHANGED <<muxVars, cmdVars>>
    \/ ExecReturn /\ UNCHANGED <<muxVars, cmdVars>>
    \/ ExecAgain /\ UNCHANGED <<muxVars, cmdVars>>

SpecExec == Init /\ [][ExecNext]_vars

\* ------------------------------------------------------------ the Cmd operations
ErrRepoNotExist == "vcs.ErrRepoNotExist"

\* errors.New(text)
ErrorsNew(text) == "errors.New: " \o text

\* What call("Git.Exec", args, &reply) can give an operation: a transport
\* error with the reply left at its zero value, or nil with the reply the
\* executor sent.  An executor that found no repository ran nothing, so its
\* reply has exit status 0; nil and empty byte slices are both <<>>.
CallResults ==
    {[err |-> e, reply |-> ZeroReply] : e \in {ServerError, ErrUnexpectedEOF}}
    \cup
    {[err |-> NoErr, reply |-> r] :
        r \in {q \in [RepoExists : BOOLEAN, Error : {"", "exit status 1"},
                      ExitStatus : {0, 1}, Stdout : {<<>>, <<"o">>},
                      Stderr : {<<>>, <<"e">>}] :
                    ~q.RepoExists => q.ExitStatus = 0}}

DividedOutput_ErrorFirst(res, old) ==
    IF res.err # NoErr
    THEN [stdout |-> <<>>, stderr |-> <<>>, err |-> res.err, ExitStatus |-> old]
    ELSE IF res.reply.Error # ""
    THEN [stdout |-> res.reply.Stdout, stderr |-> res.reply.Stderr,
          err |-> ErrorsNew(res.reply.Error), ExitStatus |-> res.reply.ExitStatus]
    ELSE IF ~res.reply.RepoExists
    THEN [stdout |-> <<>>, stderr |-> <<>>, err |-> ErrRepoNotExist, ExitStatus |-> old]
    ELSE [stdout |-> res.reply.Stdout, stderr |-> res.reply.Stderr,
          err |-> NoErr, ExitStatus |-> res.reply.ExitStatus]

\* (c *Cmd) DividedOutput for a result res of call() on a Cmd whose
\* ExitStatus field is old: the three values returned and the field after.
DividedOutput(res, old) ==
    IF res.err # NoErr
    THEN [stdout |-> <<>>, stderr |-> <<>>, err |-> res.err, ExitStatus |-> old]
    ELSE IF ~res.reply.RepoExists
    THEN [stdout |-> <<>>, stderr |-> <<>>, err |-> ErrRepoNotExist, ExitStatus |-> old]
    ELSE [stdout |-> res.reply.Stdout, stderr |-> res.reply.Stderr,
          err |-> IF res.reply.Error # "" THEN ErrorsNew(res.reply.Error) ELSE NoErr,
          ExitStatus |-> res.reply.ExitStatus]

\* (c *Cmd) Run: _, _, err := c.DividedOutput()
Run(res, old) ==
    LET d == DividedOutput(res, old) IN
    [out |-> <<>>, errOut |-> <<>>, err |-> d.err, ExitStatus |-> d.ExitStatus]

\* (c *Cmd) Output: stdout, _, err := c.DividedOutput()
Output(res, old) ==
    LET d == DividedOutput(res, old) IN
    [out |-> d.stdout, errOut |-> <<>>, err |-> d.err, ExitStatus |-> d.ExitStatus]

\* (c *Cmd) CombinedOutput: append(stdout, stderr...)
CombinedOutput(res, old) ==
    LET d == DividedOutput(res, old) IN
    [out |-> d.stdout \o d.stderr, errOut |-> <<>>, err |-> d.err,
     ExitStatus |-> d.ExitStatus]

Operations == {"DividedOutput", "Output", "CombinedOutput", "Run"}

\* What operation op returns and leaves in the field.
OpResult(op, res, old) ==
    CASE op = "DividedOutput" ->
           LET d == DividedOutput(res, old) IN
           [out |-> d.stdout, errOut |-> d.stderr, err |-> d.err,
            ExitStatus |-> d.ExitStatus]
      [] op = "Output" -> Output(res, old)
      [] op = "CombinedOutput" -> CombinedOutput(res, old)
      [] op = "Run" -> Run(res, old)

\* One operation runs on the Cmd and returns.
CmdOp(op, res) ==
    /\ ops < MaxOps
    /\ LET r == OpResult(op, res, ExitStatus) IN
        /\ ExitStatus' = r.ExitStatus
        /\ lastRet' = [out |-> r.out, errOut |-> r.errOut, err |-> r.err]
    /\ lastOp' = op
    /\ lastCall' = res
    /\ ops' = ops + 1

CmdNext == \E op \in Operations, res \in CallResults : CmdOp(op, res) /\ UNCHANGED <<muxVars, execVars>>

SpecCmd == Init /\ [][CmdNext]_vars

\* ------------------------------------------------------ specification
Next ==
    \/ DialErr /\ UNCHANGED <<execVars, cmdVars>>
    \/ DialOK /\ UNCHANGED <<execVars, cmdVars>>
    \/ \E c \in Calls : Submit(c) /\ UNCHANGED <<execVars, cmdVars>>
    \/ \E c \in Calls : CallerSend(c) /\ UNCHANGED <<execVars, cmdVars>>
    \/ \E c \in Calls : CallerReturn(c) /\ UNCHANGED <<execVars, cmdVars>>
    \/ Dequeue /\ UNCHANGED <<execVars, cmdVars>>
    \/ \E c \in Calls : ResetHandover(c) /\ UNCHANGED <<execVars, cmdVars>>
    \/ RedialFail /\ UNCHANGED <<execVars, cmdVars>>
    \/ RedialOK /\ UNCHANGED <<execVars, cmdVars>>
    \/ \E c \in Calls : WatcherAwait(c) /\ UNCHANGED <<execVars, cmdVars>>
    \/ \E c \in Calls : WatcherRetry(c) /\ UNCHANGED <<execVars, cmdVars>>
    \/ \E c \in Calls : Respond(c) /\ UNCHANGED <<execVars, cmdVars>>
    \/ \E x \in Conns : ConnDrop(x) /\ UNCHANGED <<execVars, cmdVars>>

Spec == Init /\ [][Next]_vars

\* The coordinator, the watchers, the callers and the executor are each
\* scheduled fairly; a redial that can succeed eventually does.  Nothing forces
\* a caller to call, Dial to succeed or a connection to drop.
FairSpec ==
    /\ Spec
    /\ WF_vars((Dequeue \/ \E c \in Calls : ResetHandover(c)) /\ UNCHANGED <<execVars, cmdVars>>)
    /\ WF_vars(RedialOK /\ UNCHANGED <<execVars, cmdVars>>)
    /\ WF_vars((\E c \in Calls : WatcherAwait(c) \/ WatcherRetry(c)) /\ UNCHANGED <<execVars, cmdVars>>)
    /\ WF_vars((\E c \in Calls : CallerSend(c) \/ CallerReturn(c)) /\ UNCHANGED <<execVars, cmdVars>>)
    /\ WF_vars((\E c \in Calls : Respond(c)) /\ UNCHANGED <<execVars, cmdVars>>)

\* ------------------------------------------------------------ a burst
\* The runs of the multiplexer in which more callers call than the queue
\* holds while the executor is out: the connection is lost before the first
\* caller calls, the callers call one after another (each once the one
\* before it has handed its call to the queue), those after the first NEarly
\* only while the coordinator is in its reconnect loop, the first redial
\* succeeds and the executor answers no call.  The coordinator and the
\* watchers run as they do in Spec.
BurstSubmit(c) ==
    /\ Submit(c)
    /\ args'[c] = "run"
    /\ c > 1 => pc[c - 1] \notin {"idle", "send"}
    /\ c > NEarly => cpc = "dial"

BurstDrop(x) ==
    /\ ConnDrop(x)
    /\ \A c \in BurstCalls : pc[c] = "idle"

NextBurst ==
    \/ DialOK /\ UNCHANGED <<execVars, cmdVars>>
    \/ \E c \in BurstCalls : BurstSubmit(c) /\ UNCHANGED <<execVars, cmdVars>>
    \/ \E c \in BurstCalls : CallerSend(c) /\ UNCHANGED <<execVars, cmdVars>>
    \/ Dequeue /\ UNCHANGED <<execVars, cmdVars>>
    \/ \E c \in BurstCalls : ResetHandover(c) /\ UNCHANGED <<execVars, cmdVars>>
    \/ RedialOK /\ UNCHANGED <<execVars, cmdVars>>
    \/ \E c \in BurstCalls : WatcherAwait(c) /\ UNCHANGED <<execVars, cmdVars>>
    \/ \E c \in BurstCalls : WatcherRetry(c) /\ UNCHANGED <<execVars, cmdVars>>
    \/ \E x \in Conns : BurstDrop(x) /\ UNCHANGED <<execVars, cmdVars>>

InitBurst == MuxInitFor(BurstCalls) /\ ExecInit /\ CmdInit

SpecBurst == InitBurst /\ [][NextBurst]_vars

\* ------------------------------------------------------------- claims
InQueue(c) == \E i \in 1..Len(queue) : queue[i] = c

QueueCount(c) == Cardinality({i \in 1..Len(queue) : queue[i] = c})

Submitted(c) == pc[c] \in {"send", "wait"}

\* C1: a call's own Done channel receives at most one value over the whole
\* life of the call: the watcher of a dispatch that ended in rpc.ErrShutdown
\* does not write to it, and once a value has been written the call is in no
\* queue, has no watcher and is never dispatched or enqueued again.
C1_DoneAtMostOnce ==
    /\ [](\A c \in Calls :
            /\ doneWrites[c] <= 1
            /\ doneWrites[c] >= 1 => ~InQueue(c) /\ wpc[c] = "none")
    /\ [][\A c \in Calls :
            /\ (wpc[c] = "await" /\ innerDone[c] = ErrShutdown)
                  => doneWrites'[c] = doneWrites[c]
            /\ doneWrites[c] >= 1
                  => dispatches'[c] = dispatches[c] /\ QueueCount(c)' = QueueCount(c)]_vars

\* A call that was retried after a shutdown failure and then completed.
C1_Witness == \E c \in Calls : doneWrites[c] = 1 /\ dispatches[c] >= 2

\* C2: once Dial has succeeded, every call that a caller has submitted is
\* eventually returned from call(), whatever drops and failed redials happen
\* on the way (the last connection stays up).
C2_EveryCallReturns ==
    \A c \in Calls : (Submitted(c) /\ dialState = "ok") ~> (pc[c] = "returned")

\* All callers have returned although the first connection dropped and one of
\* the calls had to be dispatched again on the second.
C2_Witness ==
    /\ \A c \in Calls : pc[c] = "returned"
    /\ connState[1] = "shutdown"
    /\ clientSingleton = 2
    /\ \E c \in Calls : dispatches[c] >= 2
    /\ \E c \in Calls : retErr[c] = ErrUnexpectedEOF

\* C3: call() never returns rpc.ErrShutdown, and no call is completed (a value
\* put on its Done channel) while its Error is rpc.ErrShutdown.
C3_NeverReturnsShutdown ==
    \A c \in Calls :
        /\ pc[c] = "returned" => retErr[c] # ErrShutdown
        /\ doneBuf[c] > 0 => callError[c] # ErrShutdown

\* A caller has returned from a call whose first dispatch failed with shutdown.
C3_Witness ==
    \E c \in Calls : pc[c] = "returned" /\ dispatches[c] >= 2 /\ retErr[c] = NoErr

\* C4 (as claimed): whatever drops happen, a caller gets the error and the
\* reply that Git.Exec gives its request when the connection never drops.
C4_SameOutcomeAsWithoutDrop ==
    \A c \in Calls :
        pc[c] = "returned" =>
            /\ retErr[c] = ExecOutcome(args[c]).err
            /\ callReply[c] = ExecOutcome(args[c]).reply

\* C5: when a dispatch ends with nil or with an error other than
\* rpc.ErrShutdown, the watcher's step sets the call's Error to exactly that
\* error and puts the call on its Done channel, and it leaves the queue, the
\* coordinator and the connections alone; a completed call is not dispatched
\* again.
C5_NonShutdownCompletes ==
    [][\A c \in Calls :
        /\ (wpc[c] = "await" /\ innerDone[c] \notin {None, ErrShutdown} /\ wpc'[c] # "await")
              => /\ callError'[c] = innerDone[c]
                 /\ doneBuf'[c] = doneBuf[c] + 1
                 /\ doneWrites'[c] = doneWrites[c] + 1
                 /\ wpc'[c] = "none"
                 /\ UNCHANGED <<queue, cpc, clientSingleton, connState, closeCalls, nconn,
                                dialFails>>
        /\ (doneWrites[c] >= 1 /\ callError[c] # ErrShutdown)
              => dispatches'[c] = dispatches[c] /\ wpc'[c] = "none"]_vars

\* A call completed after one dispatch with a transport error that is not
\* shutdown, and another completed with the executor's error.
C5_Witness ==
    /\ \E c \in Calls :
          doneWrites[c] = 1 /\ dispatches[c] = 1 /\ callError[c] = ErrUnexpectedEOF
    /\ \E c \in Calls :
          doneWrites[c] = 1 /\ dispatches[c] = 1 /\ callError[c] = ServerError

\* C6: a reconnect request naming a connection that is not the current one
\* changes nothing of the coordinator's: no Close, no dial, the same current
\* connection; and no connection is closed more than once.
C6_StaleResetIgnored ==
    /\ [](\A x \in Conns : closeCalls[x] <= 1)
    /\ [][\A c \in Calls :
            (wpc[c] = "reset" /\ wpc'[c] # "reset" /\ wclient[c] # clientSingleton)
              => UNCHANGED <<clientSingleton, cpc, connState, closeCalls, nconn, dialFails>>]_vars

\* Two watchers failed against connection 1; both have handed over their
\* request, one reconnect happened and the other request was ignored.
C6_Witness ==
    /\ \A c \in Calls : wpc[c] = "retry" /\ wclient[c] = 1
    /\ clientSingleton = 2
    /\ cpc = "select"
    /\ closeCalls[1] = 1

\* C7: a reconnect request for the current connection closes it and puts the
\* coordinator in the reconnect loop; in the loop a failed dial leaves it in
\* the loop, no call is dequeued or dispatched and no reconnect request is
\* taken, and it leaves the loop only with a newly dialed, live connection as
\* the current one.
C7_ReconnectLoop ==
    [][/\ \A c \in Calls :
            (wpc[c] = "reset" /\ wpc'[c] # "reset" /\ wclient[c] = clientSingleton)
              => cpc' = "dial" /\ closeCalls'[clientSingleton] = closeCalls[clientSingleton] + 1
       /\ cpc = "dial" =>
            /\ dialFails' # dialFails => cpc' = "dial" /\ clientSingleton' = clientSingleton
            /\ cpc' # "dial" =>
                  /\ cpc' = "select"
                  /\ nconn' = nconn + 1
                  /\ clientSingleton' = nconn'
                  /\ clientSingleton' # clientSingleton
                  /\ connState'[clientSingleton'] = "up"
            /\ cpc' = "dial" => clientSingleton' = clientSingleton
            /\ \A c \in Calls :
                  /\ dispatches'[c] = dispatches[c]
                  /\ QueueCount(c)' >= QueueCount(c)
                  /\ wpc[c] = "reset" => wpc'[c] = "reset"]_vars

\* The coordinator is in the loop after a failed dial while a call waits in
\* the queue and a watcher waits to hand over its reconnect request.
C7_Witness ==
    /\ cpc = "dial"
    /\ dialFails >= 1
    /\ queue # <<>>
    /\ \E c \in Calls : wpc[c] = "reset"

\* C8: every call that was submitted and is not completed is in exactly one
\* place: with its caller about to send it, in the queue (once), or with its
\* one watcher (awaiting the dispatch, handing over a reconnect request, or
\* about to re-enqueue it).
Places(c) ==
    (IF pc[c] = "send" THEN 1 ELSE 0) + QueueCount(c) + (IF wpc[c] # "none" THEN 1 ELSE 0)

C8_NoCallLost ==
    \A c \in Calls :
        /\ (Submitted(c) /\ doneWrites[c] = 0) => Places(c) = 1
        /\ pc[c] = "idle" => Places(c) = 0

\* The coordinator is in the reconnect loop and the queue holds the retried
\* call followed by a call that was never dispatched: the second was sent
\* to the queue after the retry, so during the reconnect.
C8_Witness ==
    /\ cpc = "dial"
    /\ Len(queue) = 2
    /\ dispatches[queue[1]] >= 1
    /\ dispatches[queue[2]] = 0

\* C9: when Dial's first dial fails, Dial has returned the error after one
\* dial attempt, no connection exists, the coordinator was not started and
\* callChan is still nil (its queue was never made).
C9_DialFailure ==
    dialState = "failed" =>
        /\ dialFails = 1
        /\ nconn = 0
        /\ clientSingleton = 0
        /\ cpc = "notstarted"
        /\ callChan = "nil"
        /\ queue = <<>>

\* Dial has failed and a caller is blocked sending on the nil callChan.
C9_Witness == dialState = "failed" /\ \E c \in Calls : pc[c] = "send"

\* C10: when Exec has returned, none of the credential artifacts (key file,
\* SSH wrapper and its directory, password helper and its directory) exists
\* on disk, on every exit path.
C10_NoArtifactLeft == epc = "returned" => fs = {}

\* Exec returned the HTTPS provisioning error after SSH provisioning had
\* succeeded and left its three artifacts on disk.
C10_Witness ==
    /\ epc = "returned"
    /\ sshOut = "ok-dir"
    /\ httpsOut = "fail"
    /\ eret = ProvisionError

\* C11: for every request whose repository directory does not exist, with any
\* auth options, Exec goes straight to its return with a nil error, a reply
\* with RepoExists=false, an empty Error and exit status 0, provisions
\* nothing (no provisioner ran, nothing on disk, no deferred removal) and
\* starts no subprocess.
C11_MissingRepo ==
    (epc # "idle" /\ ereq.repo = "missing") =>
        /\ epc \in {"unwind", "returned"}
        /\ eret = NoErr
        /\ ereply = [RepoExists |-> FALSE, Error |-> "", ExitStatus |-> 0]
        /\ sshOut = "none" /\ httpsOut = "none"
        /\ fs = {} /\ defers = <<>>
        /\ runOut = "none"

\* Exec has returned for a request with SSH and HTTPS options against a
\* missing repository.
C11_Witness ==
    /\ epc = "returned"
    /\ ereq = [repo |-> "missing", ssh |-> TRUE, https |-> TRUE]

\* C12: whenever Exec ran the subprocess it returns a nil error whatever the
\* outcome; Error is empty exactly when the subprocess ran and exited with
\* status 0; ExitStatus is the exit code of a process that started and 0 when
\* it failed to start.
C12_OutcomeIsData ==
    runOut # "none" =>
        /\ eret = NoErr
        /\ (ereply.Error = "") <=> (runOut = "exit0")
        /\ runOut = "exit0" => ereply.ExitStatus = 0
        /\ runOut = "exit1" => ereply.ExitStatus = 1
        /\ runOut = "startfail" => ereply.ExitStatus = 0

\* Exec returned after the subprocess exited with status 1.
C12_Witness == epc = "returned" /\ runOut = "exit1" /\ ereply.ExitStatus = 1

\* C13: when the SSH wrapper's or the password helper's provisioning fails,
\* Exec goes to its return with that failure as its error and the subprocess
\* is not started in that Exec.
C13_ProvisionFailureAborts ==
    (sshOut \in {"fail-key", "fail-wrapper"} \/ httpsOut = "fail") =>
        /\ epc \in {"unwind", "returned"}
        /\ eret = ProvisionError
        /\ runOut = "none"
        /\ sshOut \in {"fail-key", "fail-wrapper"} => httpsOut = "none"

\* Exec returned the password helper's failure after the SSH wrapper had
\* been provisioned.
C13_Witness ==
    /\ epc = "returned"
    /\ sshOut = "ok"
    /\ httpsOut = "fail"
    /\ runOut = "none"

\* The variables Exec may override or remove.
AuthVars == {"GIT_SSH", "GIT_ASKPASS", "GIT_TERMINAL_PROMPT"}

\* C14: when the subprocess has been run, its environment and the ambient
\* environment have the same entries for every variable other than GIT_SSH,
\* GIT_ASKPASS and GIT_TERMINAL_PROMPT, for requests with SSH options, with
\* HTTPS options and with neither.
C14_EnvOnlyAuthVars ==
    runOut # "none" =>
        {e \in SubprocessEnv : e[1] \notin AuthVars}
            = {e \in AmbientEnv : e[1] \notin AuthVars}

\* C15: for each of DividedOutput, Output, CombinedOutput and Run: a
\* transport error from call() is returned as it is; otherwise a reply with
\* RepoExists=false gives vcs.ErrRepoNotExist and nil outputs whatever the
\* reply's Error text and outputs are; an error built from the reply's Error
\* text is returned only for a reply with RepoExists=true.
C15_ErrorMapping ==
    lastOp # "none" =>
        /\ lastCall.err # NoErr =>
                lastRet = [out |-> <<>>, errOut |-> <<>>, err |-> lastCall.err]
        /\ (lastCall.err = NoErr /\ ~lastCall.reply.RepoExists) =>
                lastRet = [out |-> <<>>, errOut |-> <<>>, err |-> ErrRepoNotExist]
        /\ lastRet.err \notin {NoErr, ErrRepoNotExist, lastCall.err} =>
                /\ lastCall.err = NoErr
                /\ lastCall.reply.RepoExists
                /\ lastCall.reply.Error # ""
                /\ lastRet.err = ErrorsNew(lastCall.reply.Error)

\* CombinedOutput returned vcs.ErrRepoNotExist for a reply that says the
\* repository is missing and yet carries an Error text and output bytes.
C15_Witness ==
    /\ lastOp = "CombinedOutput"
    /\ lastCall.err = NoErr
    /\ ~lastCall.reply.RepoExists
    /\ lastCall.reply.Error # ""
    /\ lastCall.reply.Stdout # <<>>
    /\ lastRet.err = ErrRepoNotExist

\* C16: after DividedOutput, Output or CombinedOutput returns from a call
\* that the executor answered, the Cmd's ExitStatus field is the exit status
\* in that call's reply, in every sequence of operations on the same Cmd.
C16_ExitStatusOfLastCall ==
    (lastOp \in {"DividedOutput", "Output", "CombinedOutput"} /\ lastCall.err = NoErr) =>
        ExitStatus = lastCall.reply.ExitStatus

\* C17: the queue never holds more than 10 calls, first submissions and
\* re-enqueued retries together.  While it is full no caller and no retrying
\* watcher gets past its send and each keeps its call (the call is in exactly
\* one place); a full queue changes only by the coordinator's dequeue; as
\* soon as the queue has room a blocked caller or watcher can send, and its
\* send puts its call at the end of the queue.
C17_QueueBound ==
    /\ [](Len(queue) <= CallChanCap)
    /\ [](\A c \in Callers :
            /\ (Submitted(c) /\ doneWrites[c] = 0) => Places(c) = 1
            /\ (pc[c] = "send" /\ callChan # "nil" /\ Len(queue) < CallChanCap)
                    => ENABLED (CallerSend(c) /\ UNCHANGED <<execVars, cmdVars>>)
            /\ (wpc[c] = "retry" /\ callChan # "nil" /\ Len(queue) < CallChanCap)
                    => ENABLED (WatcherRetry(c) /\ UNCHANGED <<execVars, cmdVars>>))
    /\ [][/\ Len(queue) = CallChanCap =>
                /\ \A c \in Callers :
                        /\ pc[c] = "send" => pc'[c] = "send"
                        /\ wpc[c] = "retry" => wpc'[c] = "retry"
                /\ queue' # queue =>
                        /\ queue' = Tail(queue)
                        /\ dispatches'[Head(queue)] = dispatches[Head(queue)] + 1
          /\ \A c \in Callers :
                ((pc[c] = "send" /\ pc'[c] # "send") \/ (wpc[c] = "retry" /\ wpc'[c] # "retry"))
                    => queue' = Append(queue, c)]_vars

\* The queue is full and holds a re-enqueued retry among first submissions,
\* a watcher is blocked on its retry and a caller on its submission.
C17_Witness ==
    /\ Len(queue) = CallChanCap
    /\ \E c \in Callers : InQueue(c) /\ dispatches[c] >= 1
    /\ \E c \in Callers : InQueue(c) /\ dispatches[c] = 0
    /\ \E c \in Callers : wpc[c] = "retry"
    /\ \E c \in Callers : pc[c] = "send"

\* Call c is registered on a live connection and has no response yet.
Unanswered(c) == wpc[c] = "await" /\ innerDone[c] = None /\ connState[wclient[c]] = "up"

\* C18: while a call is dispatched on a live connection and unanswered, the
\* coordinator at its select can still take the next queue entry; a dispatch
\* leaves the coordinator at its select (it does not wait for the response);
\* and a call dispatched later can complete first (the witness).
C18_NoHeadOfLineBlocking ==
    /\ []((cpc = "select" /\ queue # <<>> /\ \E a \in Calls : Unanswered(a))
            => ENABLED (Dequeue /\ UNCHANGED <<execVars, cmdVars>>))
    /\ [][\A c \in Calls :
            dispatches'[c] > dispatches[c] =>
                /\ cpc' = "select"
                /\ \A a \in Calls : Unanswered(a) => Unanswered(a)']_vars

\* Call a was dispatched once and is still unanswered on a live connection;
\* call b, dispatched once and after a, has returned to its caller with its
\* reply.
C18_Witness ==
    \E a, b \in Calls :
        /\ a # b
        /\ Unanswered(a) /\ dispatches[a] = 1
        /\ dispatches[b] = 1 /\ lastDispatched = b
        /\ pc[b] = "returned" /\ retErr[b] = NoErr

\* C19: every dispatch is made on the connection that is current at the
\* dequeue, and never on a connection on which an earlier dispatch of the
\* same call ended in rpc.ErrShutdown: a call is back in the queue only after
\* its watcher's reconnect request was taken, so the connection it failed on
\* is being replaced (the coordinator is in its reconnect loop and dequeues
\* nothing) or has been replaced.
C19_NeverOnTheFailedConnection ==
    /\ [](\A c \in Calls : \A x \in shutOn[c] :
            /\ InQueue(c) => (cpc = "dial" \/ clientSingleton # x)
            /\ wpc[c] = "await" => wclient[c] # x)
    /\ [][\A c \in Calls :
            dispatches'[c] > dispatches[c] =>
                /\ wclient'[c] = clientSingleton
                /\ clientSingleton \notin shutOn[c]]_vars

\* A call whose dispatch on connection 1 ended in rpc.ErrShutdown has been
\* dispatched again, on connection 2.
C19_Witness ==
    \E c \in Calls :
        /\ shutOn[c] = {1}
        /\ dispatches[c] = 2
        /\ wpc[c] = "await"
        /\ wclient[c] = 2

\* A step of the coordinator, of a watcher, of a caller inside call() or of
\* the executor's response.
MuxStep ==
    \/ Dequeue
    \/ RedialOK
    \/ RedialFail
    \/ \E c \in Callers :
            \/ ResetHandover(c)
            \/ WatcherAwait(c)
            \/ WatcherRetry(c)
            \/ Respond(c)
            \/ CallerSend(c)
            \/ CallerReturn(c)

\* The coordinator's steps.
CoordinatorStep ==
    \/ Dequeue
    \/ RedialOK
    \/ RedialFail
    \/ \E c \in Callers : ResetHandover(c)

\* C20: once Dial has started the multiplexer, in every reachable state in
\* which some call is inside call() (submitted, not returned) a step of the
\* multiplexer or a response is enabled; the coordinator in its reconnect
\* loop can always dial, and at its select it can always take what is offered
\* (a queued call or a watcher's reconnect request): it waits on no send.
C20_NoDeadlock ==
    /\ (dialState = "ok" /\ \E c \in Callers : Submitted(c))
            => ENABLED (MuxStep /\ UNCHANGED <<execVars, cmdVars>>)
    /\ (cpc = "dial" \/ (cpc = "select" /\ (queue # <<>> \/ \E c \in Callers : wpc[c] = "reset")))
            => ENABLED (CoordinatorStep /\ UNCHANGED <<execVars, cmdVars>>)

\* The queue is full, two watchers are blocked on the reconnect channel
\* while the coordinator is in its reconnect loop, and a caller is blocked on
\* its submission.
C20_Witness ==
    /\ Len(queue) = CallChanCap
    /\ cpc = "dial"
    /\ \E c, d \in Callers : c # d /\ wpc[c] = "reset" /\ wpc[d] = "reset"
    /\ \E c \in Callers : pc[c] = "send"


====
